---- MODULE Spec2Model ----
(***************************************************************************)
(* Model of track_files.py: a Socket.IO listener that receives radar       *)
(* packets and appends one CSV row per packet to                           *)
(* OUTPUT_DIR/<YYYY-MM-DD>/<site_name>.csv.                                 *)
(*                                                                         *)
(* The process is single-threaded.  Its position is pc; one action models  *)
(* one statement group of the source.  A KeyboardInterrupt is delivered by *)
(* the interpreter between any two statements of the main thread: inside   *)
(* the try block of lines 38-42 it is caught by line 43, anywhere else     *)
(* (before the loop, in the handler, at the loop's back-edge) it ends the  *)
(* process.  open(path, 'w') creates the file at once; the line written    *)
(* reaches it when the with block is left.                                 *)
(***************************************************************************)
EXTENDS Integers, Sequences, FiniteSets, TLC

(***************************************************************************)
(* Bounds of the model.                                                    *)
(***************************************************************************)
\* packets the transport delivers in one run of Spec
MaxPackets == 2
\* longest velocity / g_scatter list of a packet of SpecEchoes
MaxLen == 2
\* the wall clock reads a value in 0..MaxClock
MaxClock == 3
\* clock ticks in one calendar day
TicksPerDay == 2
\* packets the transport delivers in one run of SpecRollover
MaxRollover == 3

(***************************************************************************)
(* Program constants (lines 18-20).                                        *)
(***************************************************************************)
OUTPUT_DIR == ".\\output"

CSV_HEADERS == <<"Timestamp", "Beam_Number", "Num_Echoes",
                 "Num_Ionosph_Echoes", "Num_Gnd_sctr_Echoes">>

(***************************************************************************)
(* Values: str() of a non-negative integer, as csv.writer formats a cell.  *)
(***************************************************************************)
Digits == <<"0", "1", "2", "3", "4", "5", "6", "7", "8", "9">>

RECURSIVE Str(_)
Str(n) == IF n < 10 THEN Digits[n + 1]
          ELSE Str(n \div 10) \o Digits[(n % 10) + 1]

(***************************************************************************)
(* The local wall clock counts ticks; dt.datetime.now() reads it, and a    *)
(* reading may lie before an earlier one (the clock can be set back).      *)
(* strftime splits the reading into a calendar date and a time of day.     *)
(***************************************************************************)
NoTime == -1

DayOf(t) == t \div TicksPerDay
TimeOfDay(t) == t % TicksPerDay

\* strftime("%Y-%m-%d") of a day number
DateStr(d) == "2024-06-" \o (IF d + 1 < 10 THEN "0" ELSE "") \o Str(d + 1)

\* strftime("%H:%M:%S.%f") of a time of day
TimeStr(s) == "14:32:" \o (IF s < 10 THEN "0" ELSE "") \o Str(s) \o ".000000"

\* line 55: now.strftime('%Y-%m-%d-%H:%M:%S.%f')
Timestamp(t) == DateStr(DayOf(t)) \o "-" \o TimeStr(TimeOfDay(t))

\* line 59: now.strftime("%Y-%m-%d")
SubdirName(t) == DateStr(DayOf(t))

(***************************************************************************)
(* Paths are sequences of components; os.path.join appends one.            *)
(***************************************************************************)
Join(p, name) == Append(p, name)
Parent(p) == SubSeq(p, 1, Len(p) - 1)

\* line 60
SubdirPath(t) == Join(<<OUTPUT_DIR>>, SubdirName(t))

\* line 67
CsvPath(subdir_path, site_name) == Join(subdir_path, site_name \o ".csv")

(***************************************************************************)
(* The file system: ds is the set of existing directories, fs maps each    *)
(* existing file to its lines.  The working directory <<>> always exists.  *)
(***************************************************************************)
DirExists(ds, p) == p = <<>> \/ p \in ds

\* os.path.exists (lines 62, 69)
Exists(ds, fs, p) == DirExists(ds, p) \/ p \in DOMAIN fs

\* a bug: os.makedirs, which also creates the missing parent
MkdirRecursive(ds, p) == [ok |-> TRUE, dirs |-> ds \cup {p, Parent(p)}]

\* os.mkdir (line 64): fails when the parent is missing
Mkdir(ds, p) == IF DirExists(ds, Parent(p))
                THEN [ok |-> TRUE, dirs |-> ds \cup {p}]
                ELSE [ok |-> FALSE, dirs |-> ds]

\* line 69: not os.path.exists(csv_path)
CsvMissing(ds, fs, p) == ~Exists(ds, fs, p)

\* init_csv_file, line 82: open(path, mode='w') creates or truncates
OpenWrite(fs, path) ==
    [p \in DOMAIN fs \cup {path} |-> IF p = path THEN <<>> ELSE fs[p]]

\* init_csv_file, lines 83-84: writerow(CSV_HEADERS), flushed when the
\* with block is left
WriteHeader(fs, path) == [fs EXCEPT ![path] = Append(@, CSV_HEADERS)]

\* the place where a line stops when its write fails part-way
Cut == "<cut>"

\* what a write that fails part-way (disk full, file size limit) leaves of
\* a line: the cells that were written whole, then the cut
Torn(line) == {SubSeq(line, 1, k) \o <<Cut>> : k \in 0..(Len(line) - 1)}

\* lines 79 and 84: the file systems a failing write of line can leave,
\* with nothing or with a part of the line added to the file
WriteFails(fs, path, line) ==
    {fs} \cup {[fs EXCEPT ![path] = Append(@, t)] : t \in Torn(line)}

\* a bug: the row is written with mode 'w'
WriteRowTruncating(fs, path, row) ==
    [p \in DOMAIN fs \cup {path} |-> IF p = path THEN <<row>> ELSE fs[p]]

\* lines 77-79: mode 'a' appends, creating the file when it is missing
AppendRow(fs, path, row) ==
    [p \in DOMAIN fs \cup {path} |->
        IF p = path
        THEN IF path \in DOMAIN fs THEN Append(fs[path], row) ELSE <<row>>
        ELSE fs[p]]

(***************************************************************************)
(* Packets are dicts: functions from a set of keys.                        *)
(***************************************************************************)
Keys == {"site_name", "beam", "velocity", "g_scatter"}

Packet(site, beam, velocity, g_scatter) ==
    [site_name |-> site, beam |-> beam,
     velocity |-> velocity, g_scatter |-> g_scatter]

Drop(pkt, key) == [k \in (DOMAIN pkt) \ {key} |-> pkt[k]]

\* json_packet[key]: <<value>>, or <<>> where Python raises KeyError
Get(pkt, key) == IF key \in DOMAIN pkt THEN <<pkt[key]>> ELSE <<>>

\* list.count(x)
RECURSIVE Count(_, _)
Count(s, x) == IF s = <<>> THEN 0
               ELSE (IF Head(s) = x THEN 1 ELSE 0) + Count(Tail(s), x)

\* a bug: the other copy of the script writes len(velocity) three times
GetNumEchoesAllLen(pkt) ==
    LET g == Get(pkt, "g_scatter")
        v == Get(pkt, "velocity")
    IN  IF g = <<>> \/ v = <<>> THEN <<>>
        ELSE <<Len(v[1]), Len(v[1]), Len(v[1])>>

\* a bug: json_packet.get(key, []) in place of the subscripts
GetNumEchoesLenient(pkt) ==
    LET g == IF "g_scatter" \in DOMAIN pkt THEN pkt["g_scatter"] ELSE <<>>
        v == IF "velocity" \in DOMAIN pkt THEN pkt["velocity"] ELSE <<>>
    IN  <<Len(v), Count(g, 0), Count(g, 1)>>

\* get_num_echoes (lines 104-110): <<num_echoes, num_ionosph_echoes,
\* num_grd_sctr_echoes>>, or <<>> where a subscript raises KeyError
GetNumEchoes(pkt) ==
    LET g == Get(pkt, "g_scatter")
        v == Get(pkt, "velocity")
    IN  IF g = <<>> \/ v = <<>> THEN <<>>
        ELSE <<Len(v[1]), Count(g[1], 0), Count(g[1], 1)>>

\* the cells of line 79, as csv.writer writes them
Row(timestamp, beam, num) ==
    <<timestamp, Str(beam), Str(num[1]), Str(num[2]), Str(num[3])>>

\* the packets the transport delivers
Sites == {"sas", "zzz"}
FullPacket(site) == Packet(site, 7, <<0, 0, 0>>, <<1, 0, 2>>)
FeedPackets ==
    {FullPacket(s) : s \in Sites} \cup {Drop(FullPacket("sas"), k) : k \in Keys}

Flags == {0, 1, 2}
SeqsUpTo(S, n) == UNION {[1..m -> S] : m \in 0..n}
EchoPackets ==
    {Packet("sas", 7, v, g) : v \in SeqsUpTo({0}, MaxLen),
                              g \in SeqsUpTo(Flags, MaxLen)}
      \cup {Drop(FullPacket("sas"), k) : k \in Keys}

(***************************************************************************)
(* State.                                                                  *)
(*   pc         position of the process                                    *)
(*   environ    the environment after load_dotenv                          *)
(*   client     the socketio.SimpleClient: absent, created (made, the with *)
(*              block not entered), entered, connected, closed             *)
(*   out        the diagnostics printed so far (the progress messages of   *)
(*              write_csv are left out)                                    *)
(*   exc        the exception that ended the process, or "none"            *)
(*   dirs, files  the file system                                          *)
(*   event, dmap_dict   locals of start_listening                          *)
(*   now, num   locals of write_csv                                        *)
(*   hist       one entry per packet received: the packet, the clock       *)
(*              reading of its write_csv call, and how its processing      *)
(*              ended (history variable)                                   *)
(***************************************************************************)
VARIABLES pc, environ, client, out, exc, dirs, files,
          event, dmap_dict, now, num, hist

vars == <<pc, environ, client, out, exc, dirs, files,
          event, dmap_dict, now, num, hist>>

\* positions inside the try block of lines 38-42
TryPcs == {"receive", "got", "write", "dir", "csv", "header", "count",
           "append", "return"}

\* positions of the running process outside the try block
OutsideTryPcs == {"main", "diag", "exit", "listen", "make", "enter",
                  "connect", "except", "loop"}

\* os.getenv: <<value>>, or <<>> for None
Getenv(env, name) == IF name \in DOMAIN env THEN <<env[name]>> ELSE <<>>

\* a bug: the test of line 119 is lost
AddrIsNoneNever(addr) == FALSE

\* line 119: socket_addr is None
AddrIsNone(addr) == addr = <<>>

\* event[1:][0] (line 40): the first positional argument of the event
Payload(ev) == Tail(ev)[1]

\* a bug: "except Exception: continue" around the loop body
UncaughtSwallowed == "loop"

\* where an exception that no handler catches leaves the process: the try
\* of lines 38-44 catches KeyboardInterrupt only, the with block is left
Uncaught == "terminated"

SetFate(h, fate) ==
    IF h # <<>> /\ h[Len(h)].fate = "inflight"
    THEN [h EXCEPT ![Len(h)].fate = fate]
    ELSE h

ResetLocals ==
    /\ event' = <<>>
    /\ dmap_dict' = <<>>
    /\ now' = NoTime
    /\ num' = <<>>

\* an exception leaves start_listening: when the with block of line 34 was
\* entered SimpleClient.__exit__ disconnects; nothing above catches it
Propagate(kind) ==
    /\ pc' = Uncaught
    /\ exc' = kind
    /\ client' = IF client \in {"entered", "connected"} THEN "closed"
                 ELSE client
    /\ hist' = SetFate(hist, "failed")
    /\ ResetLocals

Init ==
    /\ pc = "main"
    /\ environ \in {[k \in {} |-> ""], [k \in {"SOCKET_ADDR"} |-> "ws://feed"]}
    /\ client = "absent"
    /\ out = {}
    /\ exc = "none"
    /\ dirs \in {{}, {<<OUTPUT_DIR>>}}
    /\ files = [p \in {} |-> <<>>]
    /\ event = <<>>
    /\ dmap_dict = <<>>
    /\ now = NoTime
    /\ num = <<>>
    /\ hist = <<>>

\* lines 117-119 and 123: the address is read and tested
Main ==
    /\ pc = "main"
    /\ IF AddrIsNone(Getenv(environ, "SOCKET_ADDR"))
       THEN pc' = "diag"
       ELSE pc' = "listen"
    /\ UNCHANGED <<environ, client, out, exc, dirs, files,
                   event, dmap_dict, now, num, hist>>

\* line 120
Diagnose ==
    /\ pc = "diag"
    /\ out' = out \cup {"No SOCKET_ADDR"}
    /\ pc' = "exit"
    /\ UNCHANGED <<environ, client, exc, dirs, files,
                   event, dmap_dict, now, num, hist>>

\* line 121
Exit ==
    /\ pc = "exit"
    /\ pc' = "exited"
    /\ UNCHANGED <<environ, client, out, exc, dirs, files,
                   event, dmap_dict, now, num, hist>>

\* line 33
Announce ==
    /\ pc = "listen"
    /\ out' = out \cup {"Listening"}
    /\ pc' = "make"
    /\ UNCHANGED <<environ, client, exc, dirs, files,
                   event, dmap_dict, now, num, hist>>

\* line 34: socketio.SimpleClient() returns the client
Construct ==
    /\ pc = "make"
    /\ client' = "created"
    /\ pc' = "enter"
    /\ UNCHANGED <<environ, out, exc, dirs, files,
                   event, dmap_dict, now, num, hist>>

\* line 34: the with block is entered
Enter ==
    /\ pc = "enter"
    /\ client' = "entered"
    /\ pc' = "connect"
    /\ UNCHANGED <<environ, out, exc, dirs, files,
                   event, dmap_dict, now, num, hist>>

\* line 35
Connect ==
    /\ pc = "connect"
    /\ client' = "connected"
    /\ pc' = "receive"
    /\ UNCHANGED <<environ, out, exc, dirs, files,
                   event, dmap_dict, now, num, hist>>

\* line 35: sio.connect raises
ConnectError ==
    /\ pc = "connect"
    /\ Propagate("ConnectionError")
    /\ UNCHANGED <<environ, out, dirs, files>>

\* line 39: sio.receive() returns the next event of the feed
Receive(pkts, max) ==
    /\ pc = "receive"
    /\ Len(hist) < max
    /\ \E pkt \in pkts :
          /\ event' = <<"dmap", pkt>>
          /\ hist' = Append(hist, [pkt |-> pkt, now |-> NoTime,
                                   fate |-> "inflight"])
    /\ pc' = "got"
    /\ UNCHANGED <<environ, client, out, exc, dirs, files,
                   dmap_dict, now, num>>

\* line 39: sio.receive() raises, the connection is lost
ReceiveError ==
    /\ pc = "receive"
    /\ Propagate("ConnectionError")
    /\ UNCHANGED <<environ, out, dirs, files>>

\* lines 40-41: the payload is taken, its site_name is printed
Got ==
    /\ pc = "got"
    /\ IF Get(Payload(event), "site_name") = <<>>
       THEN Propagate("KeyError")
       ELSE /\ dmap_dict' = <<Payload(event)>>
            /\ event' = <<>>
            /\ pc' = "write"
            /\ UNCHANGED <<client, exc, now, num, hist>>
    /\ UNCHANGED <<environ, out, dirs, files>>

\* lines 54-60: write_csv reads the wall clock
WriteStart ==
    /\ pc = "write"
    /\ \E t \in 0..MaxClock :
          /\ now' = t
          /\ hist' = [hist EXCEPT ![Len(hist)].now = t]
    /\ pc' = "dir"
    /\ UNCHANGED <<environ, client, out, exc, dirs, files,
                   event, dmap_dict, num>>

\* lines 62-64
DirStep ==
    /\ pc = "dir"
    /\ LET subdir_path == SubdirPath(now)
       IN  IF ~Exists(dirs, files, subdir_path)
           THEN LET r == Mkdir(dirs, subdir_path)
                IN  /\ dirs' = r.dirs
                    /\ IF r.ok
                       THEN /\ pc' = "csv"
                            /\ UNCHANGED <<client, exc, event, dmap_dict,
                                           now, num, hist>>
                       ELSE Propagate("OSError")
           ELSE /\ pc' = "csv"
                /\ UNCHANGED <<client, exc, dirs, event, dmap_dict,
                               now, num, hist>>
    /\ UNCHANGED <<environ, out, files>>

\* lines 67-71 and 82: the csv is looked for and, when missing, opened
\* for writing, which creates it
CsvStep ==
    /\ pc = "csv"
    /\ LET csv_path == CsvPath(SubdirPath(now), dmap_dict[1]["site_name"])
       IN  IF CsvMissing(dirs, files, csv_path)
           THEN /\ files' = OpenWrite(files, csv_path)
                /\ pc' = "header"
           ELSE /\ files' = files
                /\ pc' = "count"
    /\ UNCHANGED <<environ, client, out, exc, dirs,
                   event, dmap_dict, now, num, hist>>

\* lines 83-84: the header row is written and the file closed
HeaderStep ==
    /\ pc = "header"
    /\ files' = WriteHeader(files, CsvPath(SubdirPath(now),
                                           dmap_dict[1]["site_name"]))
    /\ pc' = "count"
    /\ UNCHANGED <<environ, client, out, exc, dirs,
                   event, dmap_dict, now, num, hist>>

\* lines 73-75
CountStep ==
    /\ pc = "count"
    /\ LET r == GetNumEchoes(dmap_dict[1])
       IN  IF r = <<>>
           THEN Propagate("KeyError")
           ELSE /\ num' = r
                /\ pc' = "append"
                /\ UNCHANGED <<client, exc, event, dmap_dict, now, hist>>
    /\ UNCHANGED <<environ, out, dirs, files>>

\* lines 77-79: the csv is opened for appending, then the row is built
\* (json_packet["beam"] may raise) and written, and the file closed
AppendStep ==
    /\ pc = "append"
    /\ LET csv_path == CsvPath(SubdirPath(now), dmap_dict[1]["site_name"])
           beam == Get(dmap_dict[1], "beam")
       IN  IF beam = <<>>
           THEN /\ Propagate("KeyError")
                /\ files' = files
           ELSE /\ files' = AppendRow(files, csv_path,
                                      Row(Timestamp(now), beam[1], num))
                /\ hist' = SetFate(hist, "written")
                /\ pc' = "return"
                /\ ResetLocals
                /\ UNCHANGED <<client, exc>>
    /\ UNCHANGED <<environ, out, dirs>>

\* line 42: write_csv returns and the try block is left
Return ==
    /\ pc = "return"
    /\ pc' = "loop"
    /\ UNCHANGED <<environ, client, out, exc, dirs, files,
                   event, dmap_dict, now, num, hist>>

\* an OSError, which nothing catches.  A print fails when stdout cannot be
\* written (lines 33, 41, 44, 63, 70, 73, 120); os.mkdir (line 64) and open
\* (lines 77, 82) fail and leave the file system as it is; the write of the
\* header (lines 83-84) or of the row (line 79, once the row is built) fails
\* and leaves nothing or a part of the line in the csv
IOError ==
    /\ \/ /\ pc \in {"listen", "diag", "count", "except"}
          /\ files' = files
       \/ /\ pc = "got" /\ Get(Payload(event), "site_name") # <<>>
          /\ files' = files
       \/ /\ pc = "dir" /\ ~Exists(dirs, files, SubdirPath(now))
          /\ files' = files
       \/ /\ pc = "csv"
          /\ CsvMissing(dirs, files,
                        CsvPath(SubdirPath(now), dmap_dict[1]["site_name"]))
          /\ files' = files
       \/ /\ pc = "header"
          /\ files' \in WriteFails(files,
                                   CsvPath(SubdirPath(now),
                                           dmap_dict[1]["site_name"]),
                                   CSV_HEADERS)
       \/ /\ pc = "append"
          /\ LET beam == Get(dmap_dict[1], "beam")
             IN  IF beam = <<>>
                 THEN files' = files
                 ELSE files' \in WriteFails(files,
                                            CsvPath(SubdirPath(now),
                                                    dmap_dict[1]["site_name"]),
                                            Row(Timestamp(now), beam[1], num))
    /\ Propagate("OSError")
    /\ UNCHANGED <<environ, out, dirs>>

\* line 43: a KeyboardInterrupt raised in the try block is caught
Interrupt ==
    /\ pc \in TryPcs
    /\ hist' = SetFate(hist, "interrupted")
    /\ pc' = "except"
    /\ ResetLocals
    /\ UNCHANGED <<environ, client, out, exc, dirs, files>>

\* line 44: the handler prints
HandlerStep ==
    /\ pc = "except"
    /\ out' = out \cup {"Stopping"}
    /\ pc' = "loop"
    /\ UNCHANGED <<environ, client, exc, dirs, files,
                   event, dmap_dict, now, num, hist>>

\* line 37: the loop goes round
LoopBack ==
    /\ pc = "loop"
    /\ pc' = "receive"
    /\ UNCHANGED <<environ, client, out, exc, dirs, files,
                   event, dmap_dict, now, num, hist>>

\* a KeyboardInterrupt raised outside the try block (in __main__, before
\* the loop, in the handler, at the back-edge of the loop) is not caught
InterruptOutsideTry ==
    /\ pc \in OutsideTryPcs
    /\ Propagate("KeyboardInterrupt")
    /\ UNCHANGED <<environ, out, dirs, files>>

Steps ==
    \/ Main
    \/ Diagnose
    \/ Exit
    \/ Announce
    \/ Construct
    \/ Enter
    \/ Connect
    \/ ConnectError
    \/ ReceiveError
    \/ Got
    \/ WriteStart
    \/ DirStep
    \/ CsvStep
    \/ HeaderStep
    \/ CountStep
    \/ AppendStep
    \/ Return
    \/ IOError
    \/ Interrupt
    \/ HandlerStep
    \/ LoopBack
    \/ InterruptOutsideTry

Next == Steps \/ Receive(FeedPackets, MaxPackets)

Spec == Init /\ [][Next]_vars

\* one packet, drawn from all packets up to MaxLen, is received and written
NextEchoes == Steps \/ Receive(EchoPackets, 1)

SpecEchoes == Init /\ [][NextEchoes]_vars

\* the feed of one site, whose packets are all well-formed
RolloverPackets == {FullPacket("sas")}

\* up to MaxRollover packets of one site are received, on any days
NextRollover == Steps \/ Receive(RolloverPackets, MaxRollover)

SpecRollover == Init /\ [][NextRollover]_vars

(***************************************************************************)
(* Vocabulary of the properties.  These definitions restate what the       *)
(* properties expect and do not go through the operators of write_csv.      *)
(***************************************************************************)
Root == <<OUTPUT_DIR>>

\* <output_root>/<date>/<site>.csv
FileOf(date, site) == <<OUTPUT_DIR, date, site \o ".csv">>

IsHeader(line) == line = CSV_HEADERS

\* a line that a failed write left unfinished
IsTorn(line) == line # <<>> /\ line[Len(line)] = Cut

IsRow(line) == line # CSV_HEADERS /\ ~IsTorn(line)

\* the complete rows among the lines of a file
RowLines(lines) == SelectSeq(lines, IsRow)

HeaderLines(lines) == SelectSeq(lines, IsHeader)

IsPrefix(s, t) == Len(s) <= Len(t) /\ SubSeq(t, 1, Len(s)) = s

Malformed(pkt) == DOMAIN pkt # Keys

Written(h) == h.fate = "written"

\* the file a packet's write_csv call is aimed at, once it has read the clock
TargetOf(h) == FileOf(DateStr(DayOf(h.now)), h.pkt["site_name"])

NumberOf(g, x) == Cardinality({i \in DOMAIN g : g[i] = x})

\* the row the specification expects for a packet written at h.now
ExpectedRow(h) ==
    <<Timestamp(h.now), Str(h.pkt["beam"]), Str(Len(h.pkt["velocity"])),
      Str(NumberOf(h.pkt["g_scatter"], 0)), Str(NumberOf(h.pkt["g_scatter"], 1))>>

RECURSIVE ExpectedRows(_, _)
\* the rows of the packets of h that were written to f, in delivery order
ExpectedRows(h, f) ==
    IF h = <<>> THEN <<>>
    ELSE IF Written(Head(h)) /\ TargetOf(Head(h)) = f
         THEN <<ExpectedRow(Head(h))>> \o ExpectedRows(Tail(h), f)
         ELSE ExpectedRows(Tail(h), f)

\* the packet being processed, as <<entry>>, or <<>>
InFlight == IF hist # <<>> /\ hist[Len(hist)].fate = "inflight"
            THEN <<hist[Len(hist)]>> ELSE <<>>

\* no packet's processing was cut short by an exception
NoErrors == \A i \in DOMAIN hist : hist[i].fate \in {"written", "inflight"}

(***************************************************************************)
(* C1.  However many write_csv calls are made for one (date, site), the    *)
(* file they have written to holds the header row exactly once, as its     *)
(* first line.                                                             *)
(***************************************************************************)
C1_HeaderOnce ==
    \A f \in DOMAIN files :
        RowLines(files[f]) # <<>> =>
            /\ files[f][1] = CSV_HEADERS
            /\ Len(HeaderLines(files[f])) = 1

(***************************************************************************)
(* C2.  The row written for a packet carries len(velocity), the number of  *)
(* g_scatter entries equal to 0 and the number equal to 1; with N          *)
(* velocities and flags that are k ones and N-k zeros the counts are        *)
(* (N, N-k, k); a flag other than 0/1 is counted in neither counter.       *)
(***************************************************************************)
C2_EchoCounts ==
    \A i \in DOMAIN hist :
        Written(hist[i]) =>
            LET h == hist[i]
                f == TargetOf(h)
                v == h.pkt["velocity"]
                g == h.pkt["g_scatter"]
                N == Len(v)
                k == NumberOf(g, 1)
                last == files[f][Len(files[f])]
            IN  /\ f \in DOMAIN files
                /\ last = ExpectedRow(h)
                /\ (Len(g) = N /\ \A j \in DOMAIN g : g[j] \in {0, 1})
                      => last = <<Timestamp(h.now), Str(h.pkt["beam"]),
                                  Str(N), Str(N - k), Str(k)>>
                /\ last[4] = Str(Cardinality({j \in DOMAIN g : g[j] = 0}))
                /\ last[5] = Str(Cardinality({j \in DOMAIN g : g[j] = 1}))
                /\ Cardinality({j \in DOMAIN g : g[j] \in {0, 1}})
                     = NumberOf(g, 0) + NumberOf(g, 1)

\* a packet with a ground-scatter flag, and a flag that is neither 0 nor 1,
\* has been written
C2_Witness ==
    \E i \in DOMAIN hist :
        /\ Written(hist[i])
        /\ \E j \in DOMAIN hist[i].pkt["g_scatter"] :
               hist[i].pkt["g_scatter"][j] = 2
        /\ \E j \in DOMAIN hist[i].pkt["g_scatter"] :
               hist[i].pkt["g_scatter"][j] = 1
        /\ Len(hist[i].pkt["velocity"]) = 2

(***************************************************************************)
(* C3.  Once a manual interruption has been handled in the receive loop,   *)
(* the listener has stopped: no further packet is received and no file is  *)
(* written.                                                                *)
(***************************************************************************)
C3_InterruptStops ==
    [][("Stopping" \in out) => (hist' = hist /\ files' = files)]_vars

(***************************************************************************)
(* C4.  Two calls for one site that wrote their rows on different calendar *)
(* dates wrote to two distinct files OUTPUT_DIR/<date>/<site>.csv; each of *)
(* the two files has its own header row, as its first line and only once,  *)
(* and holds only rows whose timestamp lies on the date of its directory;  *)
(* a call changes no file of another date.                                 *)
(***************************************************************************)
C4_TwoDays ==
    \A i, j \in DOMAIN hist :
        ( /\ Written(hist[i]) /\ Written(hist[j])
          /\ hist[i].pkt["site_name"] = hist[j].pkt["site_name"]
          /\ DayOf(hist[i].now) # DayOf(hist[j].now) ) =>
            LET f == TargetOf(hist[i])
                g == TargetOf(hist[j])
            IN  /\ f # g
                /\ f \in DOMAIN files /\ g \in DOMAIN files
                /\ f[2] = DateStr(DayOf(hist[i].now))
                /\ Head(files[f]) = CSV_HEADERS
                /\ Len(HeaderLines(files[f])) = 1
                /\ \A k \in DOMAIN files[f] :
                      IsRow(files[f][k]) =>
                          \E t \in 0..MaxClock :
                              /\ files[f][k][1] = Timestamp(t)
                              /\ DayOf(t) = DayOf(hist[i].now)

C4_OtherDaysUntouched ==
    \A f \in DOMAIN files :
        /\ f \in DOMAIN files'
        /\ files'[f] # files[f] => (now # NoTime /\ f[2] = DateStr(DayOf(now)))

\* C4: after two calls of one site on different dates each of the two
\* files has its own header and only its own rows, and a call leaves the
\* files of other days as they are
C4_Rollover == []C4_TwoDays /\ [][C4_OtherDaysUntouched]_vars

(***************************************************************************)
(* C5.  Every packet is handed to write_csv and finished before the next   *)
(* receive; the complete rows of every file are exactly the rows of the    *)
(* packets written for its (date, site), in delivery order, and as long as *)
(* no packet's processing raised the file is its header followed by those  *)
(* rows and nothing else; an append never alters or removes a line         *)
(* written earlier.                                                        *)
(***************************************************************************)
C5_RowsInOrder ==
    /\ \A f \in DOMAIN files : RowLines(files[f]) = ExpectedRows(hist, f)
    /\ NoErrors =>
          \A f \in DOMAIN files :
              \/ files[f] = <<CSV_HEADERS>> \o ExpectedRows(hist, f)
              \/ /\ files[f] = <<>>
                 /\ pc = "header" /\ TargetOf(hist[Len(hist)]) = f
    /\ \A i \in DOMAIN hist :
          /\ Written(hist[i]) => TargetOf(hist[i]) \in DOMAIN files
          /\ hist[i].fate = "inflight" => i = Len(hist)
    /\ pc \in {"receive", "return", "loop", "except"} => InFlight = <<>>

C5_AppendOnly ==
    \A f \in DOMAIN files :
        f \in DOMAIN files' /\ IsPrefix(files[f], files'[f])

\* C5: files hold the rows of the packets written, one each, in delivery
\* order, and are only ever appended to
C5_Sequential == []C5_RowsInOrder /\ [][C5_AppendOnly]_vars

\* two packets were delivered and written, without any exception, to the
\* same file
C5_Witness ==
    /\ Len(hist) = 2
    /\ NoErrors
    /\ "Stopping" \notin out
    /\ Written(hist[1]) /\ Written(hist[2])
    /\ TargetOf(hist[1]) = TargetOf(hist[2])
    /\ hist[1].now # hist[2].now
    /\ Len(files[TargetOf(hist[1])]) = 3

(***************************************************************************)
(* C6.  The day's directory is created before the file, and the file       *)
(* before the row; os.mkdir is not recursive: with the output root missing *)
(* the call ends with an OSError and creates neither directory nor file.   *)
(***************************************************************************)
C6_DirsBeforeFiles ==
    /\ \A f \in DOMAIN files : Parent(f) \in dirs
    /\ \A d \in dirs : Parent(d) = <<>> \/ Parent(d) \in dirs
    /\ pc \in {"csv", "header", "count", "append"} =>
          <<OUTPUT_DIR, DateStr(DayOf(now))>> \in dirs
    /\ pc \in {"header", "count", "append"} =>
          TargetOf(hist[Len(hist)]) \in DOMAIN files

C6_Order ==
    /\ \A f \in (DOMAIN files') \ (DOMAIN files) :
          Parent(f) \in dirs /\ RowLines(files'[f]) = <<>>
    /\ \A f \in DOMAIN files : f \in DOMAIN files'
    /\ Root \notin dirs =>
          /\ dirs' = dirs
          /\ files' = files
          /\ pc' \notin {"csv", "header", "count", "append"}
          /\ (pc = "dir" /\ pc' \notin {"dir", "except"}) => exc' = "OSError"

\* C6: directory before file before row, and no directory or file at all
\* while the output root is missing
C6_MkdirThenFile == []C6_DirsBeforeFiles /\ [][C6_Order]_vars

\* a call found no directory for its day and has created the directory,
\* the file and the row
C6_Witness ==
    \E i \in DOMAIN hist :
        /\ Written(hist[i])
        /\ Parent(TargetOf(hist[i])) \in dirs
        /\ files[TargetOf(hist[i])] = <<CSV_HEADERS, ExpectedRow(hist[i])>>

(***************************************************************************)
(* C7.  A connection error or a file I/O error is fatal: it leaves the     *)
(* receive loop, the client, once connecting or connected, is closed, and  *)
(* nothing is received or written afterwards.                              *)
(***************************************************************************)
C7_Fatal ==
    exc \in {"ConnectionError", "OSError"} =>
        /\ pc = "terminated"
        /\ client \in {"absent", "closed"}
        /\ (exc = "ConnectionError" \/ hist # <<>>) => client = "closed"
        /\ InFlight = <<>>

C7_NothingAfter ==
    exc \in {"ConnectionError", "OSError"} =>
        /\ hist' = hist
        /\ files' = files
        /\ dirs' = dirs
        /\ client' = client

\* C7: after a connection or file I/O error the listener has terminated,
\* the connection is closed, and nothing more is received or written
C7_ErrorsAreFatal == []C7_Fatal /\ [][C7_NothingAfter]_vars

\* the connection was lost after a packet had been written
C7_Witness ==
    /\ exc = "ConnectionError"
    /\ hist # <<>>
    /\ Written(hist[Len(hist)])

(***************************************************************************)
(* C8.  Without SOCKET_ADDR in the environment no client is made, no       *)
(* packet received and no directory or file created; the process reaches   *)
(* its exit only with the diagnostic printed, and ends otherwise only by   *)
(* an uncaught KeyboardInterrupt or a print that failed.                   *)
(***************************************************************************)
C8_NoAddrExits ==
    /\ "SOCKET_ADDR" \notin DOMAIN environ =>
          /\ \/ pc \in {"main", "diag", "exit", "exited"}
             \/ pc = "terminated" /\ exc \in {"KeyboardInterrupt", "OSError"}
          /\ "Listening" \notin out
          /\ client = "absent"
          /\ hist = <<>>
          /\ dirs \subseteq {Root}
          /\ DOMAIN files = {}
    /\ pc \in {"exit", "exited"} =>
          /\ "SOCKET_ADDR" \notin DOMAIN environ
          /\ "No SOCKET_ADDR" \in out
          /\ exc = "none"
    /\ (pc \notin {"main", "diag", "exit", "exited", "terminated"}) =>
          "SOCKET_ADDR" \in DOMAIN environ

C8_Witness == pc = "exited" /\ "No SOCKET_ADDR" \in out

(***************************************************************************)
(* C9.  The interrupt takes effect only between iterations and does not    *)
(* abort the write of the packet being processed: whenever the loop is     *)
(* back at its receive, every packet received so far has its row, and no   *)
(* file holds a header without a row.                                      *)
(***************************************************************************)
C9_OnlyBetweenIterations ==
    pc = "receive" =>
        /\ \A i \in DOMAIN hist : Written(hist[i])
        /\ \A f \in DOMAIN files : Len(files[f]) >= 2

(***************************************************************************)
(* C10.  A packet that lacks a key never gets a row, and the KeyError it   *)
(* raises ends the listener.  Without site_name the file system is left    *)
(* as it was; without velocity, g_scatter or beam the call may create the  *)
(* day's directory and the file with its header, and it appends no row and *)
(* changes no line written earlier.                                        *)
(***************************************************************************)
C10_NoRow ==
    /\ \A i \in DOMAIN hist :
          Malformed(hist[i].pkt) =>
              /\ ~Written(hist[i])
              /\ hist[i].fate = "failed" => (pc = "terminated" /\ i = Len(hist))
              /\ ("site_name" \notin DOMAIN hist[i].pkt) => hist[i].now = NoTime
    /\ exc = "KeyError" =>
          /\ pc = "terminated"
          /\ client = "closed"
          /\ hist # <<>> /\ Malformed(hist[Len(hist)].pkt)
          /\ hist[Len(hist)].fate = "failed"

C10_Effects ==
    (InFlight # <<>> /\ Malformed(InFlight[1].pkt)) =>
        /\ \A f \in DOMAIN files :
              /\ f \in DOMAIN files'
              /\ IsPrefix(files[f], files'[f])
              /\ RowLines(files'[f]) = RowLines(files[f])
        /\ \A f \in (DOMAIN files') \ (DOMAIN files) : RowLines(files'[f]) = <<>>
        /\ ("site_name" \notin DOMAIN InFlight[1].pkt) =>
              (files' = files /\ dirs' = dirs)
        /\ pc' \notin {"return", "loop", "receive"}
        /\ InFlight' = <<>> => pc' \in {"except", "terminated"}

\* C10: a packet lacking a key gets no row, its KeyError ends the
\* listener, and its call leaves at most a new directory and a header-only file
C10_MalformedPacket == []C10_NoRow /\ [][C10_Effects]_vars

\* a packet without beam ended the listener and left a header-only file
C10_Witness ==
    /\ exc = "KeyError"
    /\ "beam" \notin DOMAIN hist[Len(hist)].pkt
    /\ TargetOf(hist[Len(hist)]) \in DOMAIN files
    /\ files[TargetOf(hist[Len(hist)])] = <<CSV_HEADERS>>

====
